---- MODULE Spec2Model ----
(***************************************************************************)
(* Model of convert_webp_to_png as implemented twice in this repository:   *)
(*   src/main.py          (the "main" script, replace token 'r')           *)
(*   src/webp-to-png.py   (the "webp2png" script, replace token 'y')       *)
(*                                                                         *)
(* File names are sequences of segments ("sample", ".webp", ".png", ...);  *)
(* the real name is their concatenation.  A path is a record               *)
(* [dir, name]: name = <<>> denotes the directory path itself.             *)
(* The file system is dirKind (what each directory path is) and fs         *)
(* (the content of each regular file).                                     *)
(***************************************************************************)
EXTENDS Integers, Sequences, FiniteSets, TLC

VARIABLES
    script,                   \* which of the two scripts runs
    req,                      \* the arguments of the call (immutable)
    cwd,                      \* current working directory
    source,                   \* local variable source
    target_dir,               \* local variable target_dir
    dirKind,                  \* directory path -> "dir" | "file" | "missing"
    fs,                       \* file path -> content
    pc,                       \* position inside convert_webp_to_png
    pending,                  \* entries of the for loop not yet handed over
    successful_conversions,
    failed_conversions,
    skipped_files,
    console,                  \* error messages printed: set of [stream, path]
    summaries,                \* number of summary lines logged
    hist,                     \* run history: handed, candidates, prompts
    start,                    \* the file system when the call was made
    last                      \* what the latest process_file call did

vars == <<script, req, cwd, source, target_dir, dirKind, fs, pc, pending,
          successful_conversions, failed_conversions, skipped_files,
          console, summaries, hist, start, last>>

\* Largest number of entries the source directory holds at the start.
MaxFiles == 2

Scripts == {"main", "webp2png"}

Dirs == {".", "src", "out"}

Exts == {".webp", ".png", ".WEBP"}

\* Entry names of the source directory.
SrcNames ==
    { <<"sample", ".webp">>,
      <<"sample", ".png", ".webp">>,
      <<"sample", ".webp", ".webp">>,
      <<".webp">>,
      <<"sample", ".WEBP">> }

None == [dir |-> "", name |-> <<>>]

P(d, n) == [dir |-> d, name |-> n]

DirPath(d) == P(d, <<>>)

\* Operator input at the collision prompt: sequences of characters.
EOF == <<"EOF">>

Responses ==
    { <<"r">>, <<" ", "R", " ">>, <<"y">>, <<"Y", " ">>, <<"s">>, <<>> }

----
\* String and path functions

\* str.endswith('.webp')
EndsWithWebp(n) == Len(n) > 0 /\ n[Len(n)] = ".webp"

\* str.replace('.webp', '.png'): every occurrence is replaced
StrReplace(n) == [i \in 1..Len(n) |-> IF n[i] = ".webp" THEN ".png" ELSE n[i]]

\* pathlib PurePath.suffix: the last dot-segment, unless the name starts with it
Suffix(n) == IF Len(n) >= 2 /\ n[Len(n)] \in Exts THEN n[Len(n)] ELSE ""

\* pathlib PurePath.with_suffix('.png').name
WithSuffixPng(n) ==
    IF Suffix(n) = "" THEN n \o <<".png">>
    ELSE SubSeq(n, 1, Len(n) - 1) \o <<".png">>

\* os.path.basename / Path.name
BaseName(p) == IF p.name = <<>> THEN <<p.dir>> ELSE p.name

\* Path.parent of a path below the root
Parent(p) == IF p.name = <<>> THEN DirPath(".") ELSE DirPath(p.dir)

\* str.lower on one character
LowerChar(c) == CASE c = "R" -> "r" [] c = "Y" -> "y" [] OTHER -> c

Lower(s) == [i \in 1..Len(s) |-> LowerChar(s[i])]

RECURSIVE LStrip(_)
LStrip(s) == IF s # <<>> /\ Head(s) = " " THEN LStrip(Tail(s)) ELSE s

RECURSIVE RStrip(_)
RStrip(s) ==
    IF s # <<>> /\ s[Len(s)] = " " THEN RStrip(SubSeq(s, 1, Len(s) - 1)) ELSE s

\* input(...).strip().lower()
Normalize(s) == Lower(RStrip(LStrip(s)))

ReplaceToken(sc) == IF sc = "main" THEN <<"r">> ELSE <<"y">>

----
\* File system queries

Kind(p, dk, f) ==
    IF p = None THEN "missing"
    ELSE IF p.name = <<>> THEN dk[p.dir]
    ELSE IF dk[p.dir] = "dir" /\ p \in DOMAIN f THEN "file"
    ELSE "missing"

IsFile(p, dk, f) == Kind(p, dk, f) = "file"

IsDir(p, dk, f) == Kind(p, dk, f) = "dir"

Exists(p, dk, f) == Kind(p, dk, f) # "missing"

\* os.listdir(d): the regular files of d and, for the root, its sub-paths
ListDir(d, dk, f) ==
    { p \in DOMAIN f : d.name = <<>> /\ p.dir = d.dir }
        \cup (IF d.dir = "."
              THEN { DirPath(x) : x \in { y \in {"src", "out"} : dk[y] # "missing" } }
              ELSE {})

\* Path.glob('*.webp')
GlobWebp(d, dk, f) == { p \in ListDir(d, dk, f) : EndsWithWebp(BaseName(p)) }

\* Image.open succeeds on a well-formed image file only
Decodable(p, dk, f) == IsFile(p, dk, f) /\ p.name # <<>> /\ f[p] = "webp"

----
\* Path resolution (webp-to-png.py only; main.py uses its arguments as given)

ResolvedSource(sc, s, t, c, dk, f) ==
    IF sc = "main" THEN s
    ELSE IF s # None THEN s
    ELSE DirPath(c)

\* Variant: a missing source does not override a given target directory
ResolvedTarget_KeepGiven(sc, s, t, c, dk, f) ==
    IF sc = "main" THEN t
    ELSE IF t # None THEN t
    ELSE IF s = None THEN DirPath(c)
    ELSE IF IsFile(s, dk, f) THEN Parent(s)
    ELSE IF IsDir(s, dk, f) THEN s
    ELSE DirPath(c)

ResolvedTarget(sc, s, t, c, dk, f) ==
    IF sc = "main" THEN t
    ELSE IF s # None
         THEN IF IsFile(s, dk, f) /\ t = None THEN Parent(s)
              ELSE IF t = None THEN (IF IsDir(s, dk, f) THEN s ELSE DirPath(c))
              ELSE t
    ELSE DirPath(c)

----
\* Target directory creation

\* Whether the script calls mkdir/makedirs for a target of kind k
CallsMkdir(sc, k) == IF sc = "main" THEN TRUE ELSE k = "missing"

\* Outcomes of the call on a target of kind k: "ok" or "error"
MkdirOutcomes(k) ==
    CASE k = "dir" -> {"ok"}
      [] k = "file" -> {"error"}
      [] OTHER -> {"ok", "error"}

----
\* Candidate enumeration

\* Variant: the batch flag alone selects the batch loop
BatchBranch_FlagOnly(b, s, dk, f) == b

\* The batch branch is taken
BatchBranch(b, s, dk, f) == b /\ IsDir(s, dk, f)

\* The entries the batch loop hands to process_file
BatchEntries(sc, s, dk, f) ==
    IF sc = "main" THEN ListDir(s, dk, f) ELSE GlobWebp(s, dk, f)

\* The single-file test of the other branch
SingleFileOk(sc, s, dk, f) ==
    IF sc = "main" THEN IsFile(s, dk, f) /\ EndsWithWebp(BaseName(s))
    ELSE IsFile(s, dk, f) /\ Suffix(BaseName(s)) = ".webp"

\* Variant: both scripts print the message to standard error
ErrorStream_Stderr(sc) == "stderr"

\* Where the invalid-source message is printed
ErrorStream(sc) == IF sc = "main" THEN "stdout" ELSE "stderr"

----
\* process_file

\* The filter at the top of process_file
Accepts(sc, n) == IF sc = "main" THEN EndsWithWebp(n) ELSE Suffix(n) = ".webp"

\* Variant: ".png" is appended to the whole name
DestName_Append(sc, n) == n \o <<".png">>

\* The destination file name
DestName(sc, n) == IF sc = "main" THEN StrReplace(n) ELSE WithSuffixPng(n)

\* Variant: only the explicit answer "s" skips
IsSkip_ExplicitOnly(sc, resp) == Normalize(resp) = <<"s">>

\* The collision answer means skip
IsSkip(sc, resp) == Normalize(resp) # ReplaceToken(sc)

\* The read of the collision answer lies inside the try block
InputGuarded(sc) == sc = "main"

SaveOutcomes == {"ok", "fail_clean", "fail_partial"}

Put(f, p, c) == [q \in DOMAIN f \cup {p} |-> IF q = p THEN c ELSE f[q]]

NoCall ==
    [file |-> None, dest |-> None, accepted |-> FALSE, existed |-> FALSE,
     prompted |-> FALSE, eof |-> FALSE, response |-> <<>>, opened |-> FALSE,
     saved |-> FALSE, codec |-> "none", tgtKind |-> "dir",
     ds |-> 0, df |-> 0, dk |-> 0, raised |-> FALSE,
     prev |-> [s |-> 0, f |-> 0, k |-> 0],
     before |-> "absent", after |-> "absent"]

Content(p, dk, f) == IF IsFile(p, dk, f) /\ p.name # <<>> THEN f[p] ELSE "absent"

\* Variant: the except clause lets the error go on
OnCodecError_Reraise(sc, call, what) ==
    [call EXCEPT !.codec = what, !.raised = TRUE]

\* The except clauses around Image.open / img.save: count one failure
OnCodecError(sc, call, what) == [call EXCEPT !.codec = what, !.df = 1]

\* end of input at the prompt: caught by main.py's try block, not by
\* webp-to-png.py, whose prompt precedes the try
OnInputError(sc, call) ==
    IF InputGuarded(sc) THEN [call EXCEPT !.eof = TRUE, !.df = 1]
    ELSE [call EXCEPT !.eof = TRUE, !.raised = TRUE]

\* The skip branch: count one skip and return
OnSkip(sc, call, resp) == [call EXCEPT !.response = Normalize(resp), !.dk = 1]

\* One call process_file(file, tgt) with operator answer resp and save
\* outcome save: the record of what it did, and the new file contents in nf.
process_file(sc, file, tgt, dk, f, resp, save) ==
    LET n == BaseName(file)
        dest == P(tgt.dir, DestName(sc, n))
        existed == Exists(dest, dk, f)
        base == [NoCall EXCEPT !.file = file, !.tgtKind = Kind(tgt, dk, f)]
        call == [base EXCEPT !.dest = dest, !.accepted = TRUE,
                             !.existed = existed, !.prompted = existed,
                             !.before = Content(dest, dk, f),
                             !.after = Content(dest, dk, f)]
    IN  IF ~Accepts(sc, n) THEN [rec |-> base, nf |-> f]
        ELSE IF existed /\ resp = EOF
        THEN [rec |-> OnInputError(sc, call), nf |-> f]
        ELSE IF existed /\ IsSkip(sc, resp)
        THEN [rec |-> OnSkip(sc, call, resp), nf |-> f]
        ELSE LET c2 == [call EXCEPT !.response = IF existed THEN Normalize(resp)
                                                 ELSE <<>>,
                                    !.opened = TRUE]
                 c3 == [c2 EXCEPT !.saved = TRUE]
             IN  IF ~Decodable(file, dk, f)
                 THEN [rec |-> OnCodecError(sc, c2, "decode_error"), nf |-> f]
                 ELSE IF ~IsDir(tgt, dk, f) \/ save = "fail_clean"
                 THEN [rec |-> OnCodecError(sc, c3, "encode_error"), nf |-> f]
                 ELSE IF save = "fail_partial"
                 THEN [rec |-> [OnCodecError(sc, c3, "encode_error")
                                   EXCEPT !.after = "partial"],
                       nf |-> Put(f, dest, "partial")]
                 ELSE [rec |-> [c3 EXCEPT !.codec = "ok", !.ds = 1,
                                          !.after = "new"],
                       nf |-> Put(f, dest, "new")]

\* What the operator may answer: read only when the prompt is shown
AnswerChoices(sc, file, tgt, dk, f) ==
    IF Accepts(sc, BaseName(file))
       /\ Exists(P(tgt.dir, DestName(sc, BaseName(file))), dk, f)
    THEN Responses \cup {EOF} ELSE {<<>>}

\* How the PNG save may end: reached only when the source decodes
SaveChoices(sc, file, tgt, dk, f) ==
    IF Accepts(sc, BaseName(file)) /\ Decodable(file, dk, f)
    THEN SaveOutcomes ELSE {"ok"}

----
\* Initial states: a call of convert_webp_to_png on some file system

SrcContents(n) ==
    IF n = <<"sample", ".webp">> THEN {"webp", "bad"} ELSE {"webp"}

SourceArgs ==
    {None, DirPath("src"), DirPath("out")} \cup { P("src", n) : n \in SrcNames }

TargetArgs == {None, DirPath("src"), DirPath("out")}

NoHist == [handed |-> 0, candidates |-> 0, prompts |-> 0, enumerated |-> 0,
           abort |-> "", created |-> FALSE, saveFailed |-> FALSE]

\* The directory "src" holds at most MaxFiles entries; files that already
\* carry a destination name lie in "src" and, when it is a directory, in
\* "out".  main.py is always called with both arguments.  The kind of "out"
\* and the working directory vary where the call can depend on them.
Init ==
    \E sc \in Scripts, names \in SUBSET SrcNames, b \in BOOLEAN,
       s \in SourceArgs, t \in TargetArgs,
       ko \in {"dir", "file", "missing"}, c \in {".", "src"} :
      /\ Cardinality(names) <= MaxFiles
      /\ sc = "main" => s # None /\ t # None
      /\ (sc = "main" \/ (s # None /\ t # None)) => c = "."
      /\ (s # DirPath("out") /\ t # DirPath("out")) => ko = "dir"
      /\ \E cont \in [names -> {"webp", "bad"}],
            pre \in SUBSET { DestName(sc, n) : n \in names } :
           /\ \A n \in names : cont[n] \in SrcContents(n)
           /\ fs = [p \in { P("src", n) : n \in names }
                          \cup { P("src", m) : m \in pre }
                          \cup (IF ko = "dir" THEN { P("out", m) : m \in pre }
                                ELSE {}) |->
                       IF p.dir = "src" /\ p.name \in names
                       THEN cont[p.name] ELSE "old"]
      /\ script = sc
      /\ req = [source |-> s, target_dir |-> t, batch_mode |-> b]
      /\ cwd = c
      /\ source = s
      /\ target_dir = t
      /\ dirKind = [d \in Dirs |-> IF d = "out" THEN ko ELSE "dir"]
      /\ pc = "resolve"
      /\ pending = {}
      /\ successful_conversions = 0
      /\ failed_conversions = 0
      /\ skipped_files = 0
      /\ console = {}
      /\ summaries = 0
      /\ hist = NoHist
      /\ start = [fs |-> fs, dirKind |-> dirKind]
      /\ last = NoCall

----
\* Steps of convert_webp_to_png

\* The defaulting of source and target_dir
Resolve ==
    /\ pc = "resolve"
    /\ source' = ResolvedSource(script, source, target_dir, cwd, dirKind, fs)
    /\ target_dir' = ResolvedTarget(script, source, target_dir, cwd, dirKind, fs)
    /\ pc' = "mkdir"
    /\ UNCHANGED <<script, req, cwd, dirKind, fs, pending,
                   successful_conversions, failed_conversions, skipped_files,
                   console, summaries, hist, start, last>>

\* Creation of the target directory
MakeDir ==
    /\ pc = "mkdir"
    /\ LET k == Kind(target_dir, dirKind, fs) IN
         IF CallsMkdir(script, k)
         THEN \E o \in MkdirOutcomes(k) :
                IF o = "ok"
                THEN /\ dirKind' = [dirKind EXCEPT ![target_dir.dir] = "dir"]
                     /\ hist' = [hist EXCEPT !.created = (k = "missing")]
                     /\ pc' = "enumerate"
                ELSE /\ hist' = [hist EXCEPT !.abort = "mkdir"]
                     /\ pc' = "aborted"
                     /\ UNCHANGED dirKind
         ELSE /\ pc' = "enumerate"
              /\ UNCHANGED <<dirKind, hist>>
    /\ UNCHANGED <<script, req, cwd, source, target_dir, fs, pending,
                   successful_conversions, failed_conversions, skipped_files,
                   console, summaries, start, last>>

\* The choice between the batch loop, the single file and the error message
Enumerate ==
    /\ pc = "enumerate"
    /\ IF BatchBranch(req.batch_mode, source, dirKind, fs)
       THEN /\ pending' = BatchEntries(script, source, dirKind, fs)
            /\ UNCHANGED console
       ELSE IF SingleFileOk(script, source, dirKind, fs)
       THEN /\ pending' = {source}
            /\ UNCHANGED console
       ELSE /\ pending' = {}
            /\ console' = console \cup
                 {[stream |-> ErrorStream(script), path |-> source]}
    /\ hist' = [hist EXCEPT !.enumerated = Cardinality(pending')]
    /\ pc' = "process"
    /\ UNCHANGED <<script, req, cwd, source, target_dir, dirKind, fs,
                   successful_conversions, failed_conversions, skipped_files,
                   summaries, start, last>>

\* One call of process_file on the next entry
ProcessFile ==
    /\ pc = "process"
    /\ \E file \in pending :
       \E resp \in AnswerChoices(script, file, target_dir, dirKind, fs),
          save \in SaveChoices(script, file, target_dir, dirKind, fs) :
         LET r == process_file(script, file, target_dir, dirKind, fs, resp, save)
         IN  /\ pending' = pending \ {file}
             /\ fs' = r.nf
             /\ successful_conversions' = successful_conversions + r.rec.ds
             /\ failed_conversions' = failed_conversions + r.rec.df
             /\ skipped_files' = skipped_files + r.rec.dk
             /\ last' = [r.rec EXCEPT !.prev = [s |-> successful_conversions,
                                                 f |-> failed_conversions,
                                                 k |-> skipped_files]]
             /\ hist' = [hist EXCEPT
                   !.handed = @ + 1,
                   !.candidates = @ + (IF EndsWithWebp(BaseName(file)) THEN 1 ELSE 0),
                   !.prompts = @ + (IF r.rec.prompted THEN 1 ELSE 0),
                   !.saveFailed = @ \/ r.rec.codec = "encode_error",
                   !.abort = IF r.rec.raised THEN "input" ELSE @]
             /\ pc' = IF r.rec.raised THEN "aborted" ELSE "process"
    /\ UNCHANGED <<script, req, cwd, source, target_dir, dirKind, console,
                   summaries, start>>

\* The summary line after the loop
Summary ==
    /\ pc = "process"
    /\ pending = {}
    /\ summaries' = summaries + 1
    /\ pc' = "done"
    /\ UNCHANGED <<script, req, cwd, source, target_dir, dirKind, fs, pending,
                   successful_conversions, failed_conversions, skipped_files,
                   console, hist, start, last>>

Next == Resolve \/ MakeDir \/ Enumerate \/ ProcessFile \/ Summary

Spec == Init /\ [][Next]_vars

----
\* Vocabulary of the properties

Sum == successful_conversions + failed_conversions + skipped_files

AllZero ==
    successful_conversions = 0 /\ failed_conversions = 0 /\ skipped_files = 0

Enumerated == pc \in {"process", "done"}

SampleWebp == <<"sample", ".webp">>

SamplePng == <<"sample", ".png">>

\* The base name with its last extension replaced by ".png"
ExtReplaced(n) == SubSeq(n, 1, Len(n) - 1) \o <<".png">>

\* The .webp test each script applies to a single source
PassesWebpTest ==
    IF script = "main" THEN EndsWithWebp(BaseName(source))
    ELSE Suffix(BaseName(source)) = ".webp"

\* The invalid-source message on the stream each script uses
InvalidSourceMessage ==
    [stream |-> IF script = "main" THEN "stdout" ELSE "stderr", path |-> source]

NothingConverted ==
    /\ hist.enumerated = 0
    /\ hist.handed = 0
    /\ hist.prompts = 0
    /\ fs = start.fs
    /\ AllZero

----
\* C1: in every run that reaches the summary line the three counters sum to
\* the number of entries whose name ends in ".webp" that were handed to
\* process_file; a call on such an entry raises exactly one counter by one,
\* a call on any other entry changes no counter.
C1_CountersSumToCandidates ==
    /\ pc = "done" => Sum = hist.candidates
    /\ (last.file # None /\ ~last.raised) =>
          LET d == <<successful_conversions - last.prev.s,
                     failed_conversions - last.prev.f,
                     skipped_files - last.prev.k>>
          IN  IF EndsWithWebp(BaseName(last.file))
              THEN d \in {<<1, 0, 0>>, <<0, 1, 0>>, <<0, 0, 1>>}
              ELSE d = <<0, 0, 0>>

\* C2: when the destination exists and the answer, trimmed and lower-cased,
\* is not the replace token, the destination is not written, the codec is
\* not invoked, skipped grows by one and the run goes on; an existing
\* destination is written only after a replace answer for that candidate.
C2_SkipLeavesDestination ==
    /\ (last.existed /\ ~last.eof /\ last.response # ReplaceToken(script)) =>
          /\ Content(last.dest, dirKind, fs) = last.before
          /\ ~last.opened /\ ~last.saved
          /\ skipped_files = last.prev.k + 1
          /\ successful_conversions = last.prev.s
          /\ failed_conversions = last.prev.f
          /\ pc # "aborted"
    /\ (last.existed /\ (last.saved \/ Content(last.dest, dirKind, fs) # last.before)) =>
          ~last.eof /\ last.response = ReplaceToken(script)

C2_Witness ==
    /\ last.existed /\ ~last.eof
    /\ last.response = <<"s">>
    /\ last.before = "old"
    /\ skipped_files = 1
    /\ pending # {}

\* C3: a decode or encode failure raises failed by exactly one, leaves the
\* other counters alone and does not abort the run: the loop goes on with the
\* entries left, and a finished run has handed over every entry and logged
\* the summary exactly once.
C3_CodecFailureCountsAndContinues ==
    /\ last.codec \in {"decode_error", "encode_error"} =>
          /\ failed_conversions = last.prev.f + 1
          /\ successful_conversions = last.prev.s
          /\ skipped_files = last.prev.k
          /\ ~last.raised
          /\ pc # "aborted"
    /\ pc = "process" => hist.handed + Cardinality(pending) = hist.enumerated
    /\ pc = "done" => hist.handed = hist.enumerated /\ pending = {}
    /\ summaries = (IF pc = "done" THEN 1 ELSE 0)

C3_Witness ==
    /\ pc = "done"
    /\ failed_conversions = 1
    /\ successful_conversions = 1
    /\ last.codec = "ok"
    /\ hist.handed = 2

\* C4: path resolution of webp-to-png.py, by the kind of the source argument
\* when the call is made and the presence of the target argument.
C4_PathResolution ==
    (script = "webp2png" /\ pc # "resolve") =>
        LET s == req.source
            t == req.target_dir
            k == Kind(s, start.dirKind, start.fs)
            here == DirPath(cwd)
        IN  /\ pc = "aborted" => hist.abort # "resolve"
            /\ IF s = None THEN source = here /\ target_dir = here
               ELSE /\ source = s
                    /\ target_dir =
                         (IF t # None THEN t
                          ELSE IF k = "file"
                               THEN (IF s.name = <<>> THEN DirPath(".")
                                     ELSE DirPath(s.dir))
                          ELSE IF k = "dir" THEN s
                          ELSE here)

C4_Witness ==
    /\ script = "webp2png" /\ pc = "mkdir"
    /\ req.source = None /\ req.target_dir = DirPath("out")
    /\ cwd = "src"
    /\ target_dir = DirPath("src")

\* C5: whenever a destination write is attempted, the resolved target
\* directory exists as a directory.
C5_TargetIsDirectoryAtWrite == last.saved => last.tgtKind = "dir"

\* C6 as claimed: batch mode with a source that is not a directory has zero
\* candidates, writes nothing, prints no error and ends with all counters 0.
C6_BatchNonDirSilent ==
    (pc = "done" /\ req.batch_mode /\ ~IsDir(source, start.dirKind, start.fs)) =>
        /\ hist.enumerated = 0
        /\ fs = start.fs
        /\ console = {}
        /\ AllZero

\* C6 as amended: batch mode with a source that is not a directory when the
\* candidates are enumerated behaves as non-batch mode: an existing file that
\* passes the script's .webp test is the one entry handed to process_file;
\* any other source converts nothing and the invalid-source message naming
\* the source is printed.
C6_BatchNonDirFallsThrough ==
    (Enumerated /\ req.batch_mode /\ ~IsDir(source, dirKind, fs)) =>
        IF IsFile(source, dirKind, fs) /\ PassesWebpTest
        THEN /\ hist.enumerated = 1
             /\ console = {}
             /\ hist.handed = 1 => last.file = source
             /\ pc = "done" => hist.handed = 1 /\ Sum = 1
        ELSE /\ NothingConverted
             /\ console = {InvalidSourceMessage}

C6_Witness ==
    /\ pc = "done" /\ req.batch_mode
    /\ IsFile(source, dirKind, fs)
    /\ last.file = source
    /\ successful_conversions = 1

\* C7 as claimed: in non-batch mode a source that does not exist or is not a
\* file whose name ends in ".webp" gives zero candidates, no prompt, no
\* destination, counters 0, the error message on standard error, and the
\* summary is still logged.
C7_InvalidSourceOnStderr ==
    (Enumerated /\ ~req.batch_mode
       /\ ~(IsFile(source, dirKind, fs) /\ EndsWithWebp(BaseName(source)))) =>
        /\ NothingConverted
        /\ console = {[stream |-> "stderr", path |-> source]}
        /\ pc = "done" => summaries = 1

\* C7 as amended: the same, with the message on standard output in main.py
\* and on standard error in webp-to-png.py; the run is cut short only by a
\* failure to create the target directory, before anything is enumerated.
C7_InvalidSourceReported ==
    (~req.batch_mode /\ pc \notin {"resolve", "mkdir", "enumerate"}
       /\ ~(IsFile(source, dirKind, fs) /\ EndsWithWebp(BaseName(source)))) =>
        IF pc = "aborted"
        THEN hist.abort = "mkdir" /\ hist.handed = 0 /\ console = {}
        ELSE /\ NothingConverted
             /\ console = {InvalidSourceMessage}
             /\ pc = "done" => summaries = 1

C7_Witness ==
    /\ pc = "done" /\ ~req.batch_mode
    /\ script = "main"
    /\ Kind(source, dirKind, fs) = "missing"
    /\ console = {[stream |-> "stdout", path |-> source]}
    /\ summaries = 1

\* The default-path scenario: webp-to-png.py called with neither argument in
\* a directory holding a valid sample.webp and no sample.png, the run
\* finished and no PNG save failed.
DefaultPathScenario ==
    /\ script = "webp2png"
    /\ req.source = None /\ req.target_dir = None
    /\ P(cwd, SampleWebp) \in DOMAIN start.fs
    /\ start.fs[P(cwd, SampleWebp)] = "webp"
    /\ P(cwd, SamplePng) \notin DOMAIN start.fs
    /\ pc = "done"
    /\ ~hist.saveFailed

\* C8 as claimed: the default-path scenario ends with sample.png in the
\* current directory and successful = 1, with or without the batch flag.
C8_DefaultPathConverts ==
    DefaultPathScenario =>
        /\ Content(P(cwd, SamplePng), dirKind, fs) = "new"
        /\ successful_conversions = 1

\* C8 as amended: with the batch flag, and sample.webp the only entry of the
\* current directory whose name ends in ".webp", the scenario ends with
\* sample.png there and successful = 1; without the batch flag nothing is
\* converted and the invalid-source message names the current directory.
C8_DefaultPathNeedsBatch ==
    DefaultPathScenario =>
        IF req.batch_mode
        THEN (\A p \in DOMAIN start.fs :
                 (p.dir = cwd /\ EndsWithWebp(p.name)) => p.name = SampleWebp)
             => /\ Content(P(cwd, SamplePng), dirKind, fs) = "new"
                /\ successful_conversions = 1
                /\ failed_conversions = 0
                /\ skipped_files = 0
        ELSE /\ NothingConverted
             /\ console = {[stream |-> "stderr", path |-> DirPath(cwd)]}

C8_Witness ==
    /\ DefaultPathScenario
    /\ req.batch_mode
    /\ cwd = "src"
    /\ Content(P("src", SamplePng), dirKind, fs) = "new"
    /\ successful_conversions = 1

\* C9: no error of a process_file call escapes convert_webp_to_png: end of
\* input at the prompt becomes one failed increment, and only a failure to
\* create the target directory aborts the run.
C9_NoPerFileErrorEscapes ==
    /\ pc = "aborted" => hist.abort = "mkdir"
    /\ last.eof => /\ ~last.raised
                   /\ failed_conversions = last.prev.f + 1

\* C10: a batch run over a directory whose N entries ending in ".webp" are
\* all valid, with no destination present beforehand and no failing save,
\* writes exactly N distinct PNG files, each named by the entry's base name
\* with its extension replaced by ".png", ends with successful = N and
\* failed = skipped = 0, and never prompts.
C10_BatchConvertsEveryWebp ==
    LET cands == { p \in DOMAIN start.fs :
                     p.dir = source.dir /\ EndsWithWebp(p.name) }
        expected == { P(target_dir.dir, ExtReplaced(p.name)) : p \in cands }
        written == { p \in DOMAIN fs : fs[p] = "new" }
    IN  (pc = "done" /\ req.batch_mode
           /\ IsDir(source, start.dirKind, start.fs)
           /\ (\A p \in cands : start.fs[p] = "webp")
           /\ (\A q \in DOMAIN start.fs : start.fs[q] # "old")
           /\ ~hist.saveFailed) =>
          /\ successful_conversions = Cardinality(cands)
          /\ failed_conversions = 0
          /\ skipped_files = 0
          /\ hist.prompts = 0
          /\ written = expected
          /\ Cardinality(written) = Cardinality(cands)

====
